---------------------------- MODULE Spec2Model ----------------------------
(***************************************************************************)
(* Model of preprocessing/generate_syst_dataset.py: the generation of the  *)
(* three systematic-variation datasets (JES only, MET only, JES + MET).    *)
(*                                                                         *)
(* Numbers.  A Python float (float64) is modelled as an integer count of   *)
(* Unit-ths, Unit = 2^14, so 1.0 is 16384 and 0.10 is 1638.  A float32 is  *)
(* modelled as a value with at most F32_MANT significant bits; the         *)
(* conversion to float32 rounds to nearest, ties to even, as IEEE 754      *)
(* does.  With these scales the model keeps the two facts of the real      *)
(* formats that matter here: float32(0.10) > 0.10 and float32(5.0) = 5.0.  *)
(***************************************************************************)
EXTENDS Integers, Sequences, FiniteSets, TLC

(***************************************************************************)
(* Bounds of the model.                                                    *)
(***************************************************************************)
\* largest N_DATASETS_PER_TYPE explored (the program's value is 50)
MaxN == 3
\* stand-in for BASE_SLICE = int(8_000_000 / 50), scaled to the input sizes
BASE_SLICE == 2
\* significant bits of the modelled float32 (24 in IEEE 754)
F32_MANT == 5
\* largest standard normal deviate (in sigmas) the random source yields
MaxDeviate == 10

Unit == 2 ^ 14

(***************************************************************************)
(* Configuration, lines 16-34, in Unit-ths where the value is a float.     *)
(***************************************************************************)
OUTPUT_JES_ONLY == "data_syst_JES_only.parquet"
OUTPUT_MET_ONLY == "data_syst_MET_only.parquet"
OUTPUT_JES_MET == "data_syst_JES_MET.parquet"

JES_SIGMA == Unit \div 100 + 1
JES_MIN == -(Unit \div 10)
JES_MAX == Unit \div 10
\* mean and sigma of the log-normal multiply the standard deviate: whole numbers
MET_LOGNORM_MEAN == 0
MET_LOGNORM_SIGMA == 1
MET_MIN == 0
MET_MAX == 5 * Unit

\* The module-level configuration as the program ships it.
DefaultConfig ==
    [JES_SIGMA |-> JES_SIGMA, JES_MIN |-> JES_MIN, JES_MAX |-> JES_MAX,
     MET_LOGNORM_MEAN |-> MET_LOGNORM_MEAN,
     MET_LOGNORM_SIGMA |-> MET_LOGNORM_SIGMA,
     MET_MIN |-> MET_MIN, MET_MAX |-> MET_MAX]

(***************************************************************************)
(* Arithmetic helpers.                                                     *)
(***************************************************************************)
Min(a, b) == IF a <= b THEN a ELSE b
Max(a, b) == IF a >= b THEN a ELSE b
Abs(a) == IF a < 0 THEN -a ELSE a

\* np.clip(x, lo, hi) is minimum(maximum(x, lo), hi); lo <= hi is not checked.
Clip(x, lo, hi) == Min(Max(x, lo), hi)

\* Number of bits of m > 0.
RECURSIVE BitLen(_)
BitLen(m) == IF m = 0 THEN 0 ELSE 1 + BitLen(m \div 2)

\* Round m >= 0 to F32_MANT significant bits, nearest, ties to even.
RoundMant(m) ==
    LET n == BitLen(m)
    IN  IF n <= F32_MANT THEN m
        ELSE LET q == 2 ^ (n - F32_MANT)
                 k == m \div q
                 r == m % q
             IN  IF 2 * r < q THEN k * q
                 ELSE IF 2 * r > q THEN (k + 1) * q
                 ELSE IF k % 2 = 0 THEN k * q ELSE (k + 1) * q

\* pa.array([v] * n, type=pa.float32()): the float64 v stored as a float32.
F32(v) == IF v < 0 THEN -RoundMant(-v) ELSE RoundMant(v)

\* exp(z) in Unit-ths for the whole numbers z the model draws.
ExpUnits(z) ==
    CASE z = -10 -> 1         [] z = -9 -> 2         [] z = -8 -> 5
      [] z = -7 -> 15         [] z = -6 -> 41        [] z = -5 -> 110
      [] z = -4 -> 300        [] z = -3 -> 816       [] z = -2 -> 2217
      [] z = -1 -> 6027       [] z = 0 -> 16384      [] z = 1 -> 44536
      [] z = 2 -> 121062      [] z = 3 -> 329081     [] z = 4 -> 894536
      [] z = 5 -> 2431601     [] z = 6 -> 6609777    [] z = 7 -> 17967238
      [] z = 8 -> 48840016    [] z = 9 -> 132760927  [] z = 10 -> 360881616
      [] z = 11 -> 980977942  [] z = -11 -> 0

(***************************************************************************)
(* The random source.  np.random is one process-wide generator: a state    *)
(* seeded once, from which each call of np.random.normal or                *)
(* np.random.lognormal takes the next standard normal deviate.  The model  *)
(* generator steps through the residues modulo RngModulus; its deviates    *)
(* are the whole numbers of sigmas -MaxDeviate..MaxDeviate, so that both   *)
(* clipping bounds of both samplers are reached.                           *)
(***************************************************************************)
RngModulus == 2 * MaxDeviate + 1
RngSeeds == 0..(RngModulus - 1)
RngNext(x) == (x + 8) % RngModulus
Deviate(x) == x - MaxDeviate

\* np.random.normal(loc, scale) and np.random.lognormal(mean, sigma) raise
\* ValueError for a negative scale.
DrawRaises(sigma) == sigma < 0

\* np.random.normal(0.0, sigma) for the deviate z.
Normal(sigma, z) == sigma * z

\* np.random.lognormal(mean, sigma) for the deviate z.
LogNormal(mean, sigma, z) == ExpUnits(mean + sigma * z)

(***************************************************************************)
(* Sampling utilities, lines 41-53.                                        *)
(***************************************************************************)
\* Faulty variant of sample_jes: the draw is returned without np.clip.
sample_jes_unclipped(cfg, z) == Normal(cfg.JES_SIGMA, z)

sample_jes(cfg, z) == Clip(Normal(cfg.JES_SIGMA, z), cfg.JES_MIN, cfg.JES_MAX)

\* Faulty variant of sample_met: py is drawn before px.
sample_met_py_first(cfg, z1, z2) ==
    LET py == LogNormal(cfg.MET_LOGNORM_MEAN, cfg.MET_LOGNORM_SIGMA, z1)
        px == LogNormal(cfg.MET_LOGNORM_MEAN, cfg.MET_LOGNORM_SIGMA, z2)
    IN  <<Clip(px, cfg.MET_MIN, cfg.MET_MAX), Clip(py, cfg.MET_MIN, cfg.MET_MAX)>>

sample_met(cfg, z1, z2) ==
    LET px == LogNormal(cfg.MET_LOGNORM_MEAN, cfg.MET_LOGNORM_SIGMA, z1)
        py == LogNormal(cfg.MET_LOGNORM_MEAN, cfg.MET_LOGNORM_SIGMA, z2)
    IN  <<Clip(px, cfg.MET_MIN, cfg.MET_MAX), Clip(py, cfg.MET_MIN, cfg.MET_MAX)>>


(***************************************************************************)
(* Tables.  A table is the sequence of its rows; a row is a record of its  *)
(* columns.  The base schema is reduced to the columns the pipeline names: *)
(* the feature "pt", column 5 (the object type, 0 = jet), and the          *)
(* event-level missing-energy components the MET shift is added to.        *)
(***************************************************************************)
JetRow == [pt |-> Unit, col5 |-> 0, met_px |-> 0, met_py |-> Unit]
HardJetRow == [pt |-> 5 * (Unit \div 2), col5 |-> 0, met_px |-> 0, met_py |-> Unit]
OtherRow == [pt |-> 5 * (Unit \div 2), col5 |-> 1, met_px |-> 0, met_py |-> Unit]
RowKinds == {JetRow, HardJetRow, OtherRow}

\* pq.read_table(INPUT_PARQUET): the file is empty, or holds one row, or
\* holds one row more than the slice keeps (any rows within the slice).
InputTables ==
    {<<>>} \cup [1..1 -> RowKinds]
           \cup {t \o <<OtherRow>> : t \in [1..BASE_SLICE -> RowKinds]}

\* Faulty variant of Slice: the length is ignored, every row from offset is kept.
SliceIgnoresLength(table, offset, length) ==
    SubSeq(table, offset + 1, Len(table))

\* table.slice(offset, length): at most length rows from offset (0-based).
Slice(table, offset, length) ==
    SubSeq(table, offset + 1, Min(Len(table), offset + length))

\* Optional arguments: None is the empty sequence, a value v is <<v>>.
None == <<>>
Some(v) == <<v>>

(***************************************************************************)
(* Systematic shift builder, lines 60-72.  The two lambdas are the         *)
(* operators jet_pt_select and jet_pt_apply; the dict carries their names. *)
(***************************************************************************)
\* "select": lambda x: (x[..., 5] == 0)
jet_pt_select(x) == x.col5 = 0

\* Product of two values in Unit-ths, rounded to the nearest Unit-th.
MulUnits(a, b) == (2 * a * b + Unit) \div (2 * Unit)

\* Faulty variant of the apply lambda: the scale is added, not multiplied in.
jet_pt_apply_additive(v, s) == v + s

\* "apply": lambda v, s: v * (1.0 + s)
jet_pt_apply(v, s) == MulUnits(v, Unit + s)

make_jes_object_shift(jes_) ==
    [jet_pt |-> [features |-> <<"pt">>, select |-> "jet_pt_select",
                 apply |-> "jet_pt_apply", scale |-> jes_]]

(***************************************************************************)
(* SystematicsApplier.apply (module systematics, not in this file): a new  *)
(* table with the same rows in the same order; the selected rows' feature  *)
(* is transformed by the description's apply, the MET offsets are added to *)
(* the event-level components.                                             *)
(***************************************************************************)
SystApplyRow(x, object_shifts, met_shift) ==
    LET pt2 == IF object_shifts # None /\ jet_pt_select(x)
               THEN jet_pt_apply(x.pt, object_shifts[1].jet_pt.scale)
               ELSE x.pt
        px2 == IF met_shift # None THEN x.met_px + met_shift[1].px ELSE x.met_px
        py2 == IF met_shift # None THEN x.met_py + met_shift[1].py ELSE x.met_py
    IN  [pt |-> pt2, col5 |-> x.col5, met_px |-> px2, met_py |-> py2]

SystApply(table, object_shifts, met_shift) ==
    [k \in 1..Len(table) |-> SystApplyRow(table[k], object_shifts, met_shift)]

(***************************************************************************)
(* Bookkeeping columns, lines 79-99.                                       *)
(***************************************************************************)
\* Faulty variant of add_syst_columns: syst_tag numbers the rows of the table
\* instead of repeating the tag.
add_syst_columns_row_index(table, jes_, met_px, met_py, tag) ==
    [k \in 1..Len(table) |->
        [pt |-> table[k].pt, col5 |-> table[k].col5,
         met_px |-> table[k].met_px, met_py |-> table[k].met_py,
         syst_jes |-> F32(jes_), syst_met_px |-> F32(met_px),
         syst_met_py |-> F32(met_py), syst_tag |-> tag + k - 1]]

add_syst_columns(table, jes_, met_px, met_py, tag) ==
    LET n == Len(table)
        syst_jes == [k \in 1..n |-> F32(jes_)]
        syst_met_px == [k \in 1..n |-> F32(met_px)]
        syst_met_py == [k \in 1..n |-> F32(met_py)]
        syst_tag == [k \in 1..n |-> tag]
    IN  [k \in 1..n |->
            [pt |-> table[k].pt, col5 |-> table[k].col5,
             met_px |-> table[k].met_px, met_py |-> table[k].met_py,
             syst_jes |-> syst_jes[k], syst_met_px |-> syst_met_px[k],
             syst_met_py |-> syst_met_py[k], syst_tag |-> syst_tag[k]]]

\* pa.concat_tables(tables, promote_options="default"): the rows of the
\* tables, in list order.
RECURSIVE concat_tables(_)
concat_tables(ts) ==
    IF ts = <<>> THEN <<>> ELSE Head(ts) \o concat_tables(Tail(ts))

(***************************************************************************)
(* The three families of main, in program order.                           *)
(***************************************************************************)
Families == <<"JES_only", "MET_only", "JES_MET">>
FamilyNames == {Families[k] : k \in 1..3}

FamilyIndex(f) == CHOOSE k \in 1..3 : Families[k] = f

OutputName(f) ==
    CASE f = "JES_only" -> OUTPUT_JES_ONLY
      [] f = "MET_only" -> OUTPUT_MET_ONLY
      [] f = "JES_MET" -> OUTPUT_JES_MET

\* Which samplers a family's cycle calls.
HasJes(f) == f \in {"JES_only", "JES_MET"}
HasMet(f) == f \in {"MET_only", "JES_MET"}

(***************************************************************************)
(* State of one run of main.                                               *)
(***************************************************************************)
VARIABLES
    config,     \* the module-level sampling constants of this run
    N,          \* N_DATASETS_PER_TYPE of this run
    input,      \* the rows of INPUT_PARQUET
    pc,         \* position in main
    family,     \* which of the three loops main is in
    i,          \* the loop variable
    base,       \* the sliced base table
    jes,        \* local jes (kept from the last cycle that assigned it)
    px,         \* local px
    py,         \* local py
    shifted,    \* local shifted
    tables,     \* tables_jes_only, tables_met_only, tables_jes_met
    out,        \* table_jes_only, table_met_only, table_jes_met, once bound
    files,      \* the parquet files written, by name
    rng,        \* the state of the np.random generator
    draws,      \* the deviates consumed from np.random so far, in order
    applyLog    \* the calls of syst.apply so far, in order

vars == <<config, N, input, pc, family, i, base, jes, px, py, shifted,
          tables, out, files, rng, draws, applyLog>>

\* The empty mapping (no file written, no output table bound).
Empty == [x \in {} |-> <<>>]

\* State before main runs.  The locals are unbound in Python until their
\* first assignment and are never read before it; they start at 0 / empty.
InitWith(cfg) ==
    /\ config = cfg
    /\ N \in 1..MaxN
    /\ input \in InputTables
    /\ pc = "start"
    /\ family = Families[1]
    /\ i = 0
    /\ base = <<>>
    /\ jes = 0 /\ px = 0 /\ py = 0
    /\ shifted = <<>>
    /\ tables = [f \in FamilyNames |-> <<>>]
    /\ out = Empty
    /\ files = Empty
    /\ rng \in RngSeeds
    /\ draws = <<>>
    /\ applyLog = <<>>

Init == InitWith(DefaultConfig)

\* Faulty variant of Raise: the failed cycle is skipped and the loop goes on.
RaiseSkipsCycle ==
    /\ pc' = "loop"
    /\ i' = i + 1
    /\ UNCHANGED <<config, N, input, family, base, jes, px, py, shifted,
                   tables, out, files, rng>>

\* An exception leaves main: no handler anywhere in the file catches it, so
\* the process ends where it is.
Raise ==
    /\ pc' = "aborted"
    /\ UNCHANGED <<config, N, input, family, i, base, jes, px, py, shifted,
                   tables, out, files, rng>>

\* Lines 113-122: read, slice, create the applier and the three lists.
ReadBase ==
    /\ pc = "start"
    /\ base' = Slice(input, 0, BASE_SLICE)
    /\ tables' = [f \in FamilyNames |-> <<>>]
    /\ pc' = "loop"
    /\ UNCHANGED <<config, N, input, family, i, jes, px, py, shifted, out,
                   files, rng, draws, applyLog>>

\* Lines 130 and 191: jes = sample_jes().
SampleJes ==
    /\ pc = "loop" /\ i < N /\ HasJes(family)
    /\ IF DrawRaises(config.JES_SIGMA)
       THEN Raise /\ UNCHANGED <<draws, applyLog>>
       ELSE /\ jes' = sample_jes(config, Deviate(rng))
            /\ rng' = RngNext(rng)
            /\ draws' = Append(draws, Deviate(rng))
            /\ pc' = IF HasMet(family) THEN "sample_met" ELSE "apply"
            /\ UNCHANGED <<config, N, input, family, i, base, px, py,
                           shifted, tables, out, files, applyLog>>

\* Lines 161 and 192: px, py = sample_met(); px is drawn first.
SampleMet ==
    /\ \/ pc = "loop" /\ i < N /\ ~HasJes(family)
       \/ pc = "sample_met"
    /\ IF DrawRaises(config.MET_LOGNORM_SIGMA)
       THEN Raise /\ UNCHANGED <<draws, applyLog>>
       ELSE LET z1 == Deviate(rng)
                z2 == Deviate(RngNext(rng))
            IN  /\ px' = sample_met(config, z1, z2)[1]
                /\ py' = sample_met(config, z1, z2)[2]
                /\ rng' = RngNext(RngNext(rng))
                /\ draws' = draws \o <<z1, z2>>
                /\ pc' = "apply"
                /\ UNCHANGED <<config, N, input, family, i, base, jes,
                               shifted, tables, out, files, applyLog>>

\* The arguments of syst.apply in the current family (lines 134-135,
\* 165-166, 196-197).
ObjectShiftsArg ==
    IF HasJes(family) THEN Some(make_jes_object_shift(jes)) ELSE None
MetShiftArg ==
    IF HasMet(family) THEN Some([px |-> px, py |-> py]) ELSE None

ApplyCall ==
    [family |-> family, cycle |-> i, object_shifts |-> ObjectShiftsArg,
     met_shift |-> MetShiftArg, recompute_globals |-> TRUE]

\* Lines 132-137, 163-168, 194-199: shifted = syst.apply(base, ...).
Apply ==
    /\ pc = "apply"
    /\ applyLog' = Append(applyLog, ApplyCall)
    /\ shifted' = SystApply(base, ObjectShiftsArg, MetShiftArg)
    /\ pc' = "annotate"
    /\ UNCHANGED <<config, N, input, family, i, base, jes, px, py, tables,
                   out, files, rng, draws>>

\* The same call, when the applier raises.
ApplyRaises ==
    /\ pc = "apply"
    /\ applyLog' = Append(applyLog, ApplyCall)
    /\ Raise
    /\ UNCHANGED draws

\* Faulty variant of Annotate: the local jes is recorded in every family, also
\* where no JES shift was applied.
AnnotateStaleJes ==
    /\ pc = "annotate"
    /\ shifted' = add_syst_columns(shifted, jes,
                                   IF HasMet(family) THEN px ELSE 0,
                                   IF HasMet(family) THEN py ELSE 0,
                                   i)
    /\ pc' = "append"
    /\ UNCHANGED <<config, N, input, family, i, base, jes, px, py, tables,
                   out, files, rng, draws, applyLog>>

\* Lines 139-145, 170-176, 201-207: shifted = add_syst_columns(shifted, ...).
Annotate ==
    /\ pc = "annotate"
    /\ shifted' = add_syst_columns(shifted,
                                   IF HasJes(family) THEN jes ELSE 0,
                                   IF HasMet(family) THEN px ELSE 0,
                                   IF HasMet(family) THEN py ELSE 0,
                                   i)
    /\ pc' = "append"
    /\ UNCHANGED <<config, N, input, family, i, base, jes, px, py, tables,
                   out, files, rng, draws, applyLog>>

\* Lines 147, 178, 209: tables_X.append(shifted), then the next iteration.
AppendTable ==
    /\ pc = "append"
    /\ tables' = [tables EXCEPT ![family] = Append(@, shifted)]
    /\ i' = i + 1
    /\ pc' = "loop"
    /\ UNCHANGED <<config, N, input, family, base, jes, px, py, shifted,
                   out, files, rng, draws, applyLog>>

\* Faulty variant of Concat: one list shared by the three families is
\* concatenated.
ConcatSharedList ==
    /\ pc = "loop" /\ i = N
    /\ out' = (family :> concat_tables(tables["JES_only"] \o tables["MET_only"]
                                         \o tables["JES_MET"])) @@ out
    /\ pc' = "write"
    /\ UNCHANGED <<config, N, input, family, i, base, jes, px, py, shifted,
                   tables, files, rng, draws, applyLog>>

\* Lines 151, 182, 216: table_X = pa.concat_tables(tables_X, ...).
Concat ==
    /\ pc = "loop" /\ i = N
    /\ out' = (family :> concat_tables(tables[family])) @@ out
    /\ pc' = "write"
    /\ UNCHANGED <<config, N, input, family, i, base, jes, px, py, shifted,
                   tables, files, rng, draws, applyLog>>

\* Lines 152, 183, 217: pq.write_table(table_X, OUTPUT_X), then the next
\* family's loop, or the end of main.
Write ==
    /\ pc = "write"
    /\ files' = (OutputName(family) :> out[family]) @@ files
    /\ IF FamilyIndex(family) < 3
       THEN /\ family' = Families[FamilyIndex(family) + 1]
            /\ i' = 0
            /\ pc' = "loop"
       ELSE /\ pc' = "done"
            /\ UNCHANGED <<family, i>>
    /\ UNCHANGED <<config, N, input, base, jes, px, py, shifted, tables,
                   out, rng, draws, applyLog>>

Next ==
    \/ ReadBase
    \/ SampleJes
    \/ SampleMet
    \/ Apply
    \/ ApplyRaises
    \/ Annotate
    \/ AppendTable
    \/ Concat
    \/ Write

Spec == Init /\ [][Next]_vars

(***************************************************************************)
(* Runs of the same program with the sampling constants of lines 26-34     *)
(* edited to values the samplers are not defined for: a sigma that is zero *)
(* or negative, a minimum that is not below its maximum.                   *)
(***************************************************************************)
InvalidConfigs ==
    {[DefaultConfig EXCEPT !.JES_SIGMA = 0],
     [DefaultConfig EXCEPT !.MET_LOGNORM_SIGMA = -1],
     [DefaultConfig EXCEPT !.JES_MIN = JES_MAX, !.JES_MAX = JES_MIN],
     [DefaultConfig EXCEPT !.MET_MIN = MET_MAX]}

InitCfg == \E cfg \in InvalidConfigs : InitWith(cfg)

SpecCfg == InitCfg /\ [][Next]_vars

(***************************************************************************)
(* Vocabulary of the properties.                                           *)
(***************************************************************************)
\* The family's output file has been written.
Written(f) == OutputName(f) \in DOMAIN files
FileOf(f) == files[OutputName(f)]

\* The four bookkeeping values of a row.
Book(row) == <<row.syst_jes, row.syst_met_px, row.syst_met_py, row.syst_tag>>

\* The 1-based rows of block k (0-based) in a table of blocks of r rows.
BlockRows(k, r) == (k * r + 1)..((k + 1) * r)

\* The cycles (0-based) of family f whose annotated table has been collected.
Collected(f) == 0..(Len(tables[f]) - 1)

\* A configuration the samplers are defined for: sigma > 0 and min < max.
ValidConfig(cfg) ==
    /\ cfg.JES_SIGMA > 0 /\ cfg.MET_LOGNORM_SIGMA > 0
    /\ cfg.JES_MIN < cfg.JES_MAX /\ cfg.MET_MIN < cfg.MET_MAX

(***************************************************************************)
(* C1.  Every table handed to the writer (bound by the concatenation,      *)
(* lines 151, 182, 216) consists of N contiguous blocks of R = rows of the *)
(* base table: the four bookkeeping columns are constant within a block,   *)
(* and the syst_tag of block k (k = 0..N-1, in output order) is k.         *)
(***************************************************************************)
BlockPartition ==
    \A f \in DOMAIN out :
        LET t == out[f]
            r == Len(base)
        IN  /\ Len(t) = N * r
            /\ \A k \in 0..(N - 1) :
                  \A x \in BlockRows(k, r) :
                      /\ t[x].syst_tag = k
                      /\ Book(t[x]) = Book(t[k * r + 1])

\* A family of several cycles over a base table of several rows is handed
\* to the writer.
BlockPartitionWitness ==
    /\ pc = "write"
    /\ N >= 2
    /\ Len(base) >= 2
    /\ family \in DOMAIN out

(***************************************************************************)
(* C2.  Each family output file written by main has exactly N x R rows,    *)
(* R being the rows of the base table after the slice to BASE_SLICE        *)
(* (the applier keeping the row count of its input).                       *)
(***************************************************************************)
RowCount ==
    /\ pc # "start" => Len(base) = Min(Len(input), BASE_SLICE)
    /\ \A f \in FamilyNames : Written(f) => Len(FileOf(f)) = N * Len(base)

\* All three files are written from an input longer than the slice.
RowCountWitness ==
    /\ pc = "done"
    /\ \A f \in FamilyNames : Written(f)
    /\ Len(input) > BASE_SLICE
    /\ N >= 2

(***************************************************************************)
(* C3.  The bookkeeping values on block i of a family record the           *)
(* perturbation passed to syst.apply in cycle i of that family: the scale  *)
(* of the object-shift description (0.0 when object_shifts was None), the  *)
(* px and py of met_shift (0.0 when met_shift was None), and the cycle     *)
(* index as tag.                                                           *)
(***************************************************************************)
PassedJes(c) ==
    IF c.object_shifts = None THEN 0 ELSE c.object_shifts[1].jet_pt.scale
PassedPx(c) == IF c.met_shift = None THEN 0 ELSE c.met_shift[1].px
PassedPy(c) == IF c.met_shift = None THEN 0 ELSE c.met_shift[1].py

\* Every collected block, and every block of a written file, carries the
\* perturbation of its own call, each value seen through Conv, and the
\* call's cycle index as tag.
BlocksRecord(Conv(_)) ==
    \A n \in 1..Len(applyLog) :
        LET c == applyLog[n]
            f == c.family
            book == <<Conv(PassedJes(c)), Conv(PassedPx(c)), Conv(PassedPy(c)),
                      c.cycle>>
        IN  /\ c.cycle \in Collected(f) =>
                  \A x \in 1..Len(tables[f][c.cycle + 1]) :
                      Book(tables[f][c.cycle + 1][x]) = book
            /\ Written(f) =>
                  \A x \in BlockRows(c.cycle, Len(base)) :
                      Book(FileOf(f)[x]) = book

SameValue(v) == v

\* C3 as stated: the recorded values equal the values passed.
BookkeepingExact == BlocksRecord(SameValue)

\* C3 as the code has it: the recorded values are the values passed, stored
\* as 32-bit floats (rounded to the nearest float32); 0.0 stays 0.0.
BookkeepingRounded == BlocksRecord(F32) /\ F32(0) = 0

\* The JES+MET file is written with rows, and a block of it carries a JES
\* scale and MET offsets that are not zero.
BookkeepingWitness ==
    /\ Written("JES_MET")
    /\ Len(base) >= 1
    /\ N >= 2
    /\ \E x \in 1..Len(FileOf("JES_MET")) :
          /\ FileOf("JES_MET")[x].syst_jes # 0
          /\ FileOf("JES_MET")[x].syst_met_px # 0
          /\ FileOf("JES_MET")[x].syst_tag = 1

(***************************************************************************)
(* C7.  sample_jes returns a value in [JES_MIN, JES_MAX]; sample_met       *)
(* returns components in [MET_MIN, MET_MAX] that are >= 0; and the values  *)
(* in the bookkeeping columns stay within bounds.                          *)
(***************************************************************************)
Between(v, lo, hi) == lo <= v /\ v <= hi

\* The samplers' results, for every deviate of the random source (a fact of
\* the configuration, looked at as the run starts) and for the values main
\* holds after sampling.
SamplersWithinBounds ==
    /\ pc = "start" => \A x \in RngSeeds :
          /\ Between(sample_jes(config, Deviate(x)), JES_MIN, JES_MAX)
          /\ \A k \in 1..2 :
                LET v == sample_met(config, Deviate(x), Deviate(RngNext(x)))[k]
                IN  Between(v, MET_MIN, MET_MAX) /\ v >= 0
    /\ (pc \in {"sample_met", "apply", "annotate", "append"} /\ HasJes(family))
          => Between(jes, JES_MIN, JES_MAX)
    /\ (pc \in {"apply", "annotate", "append"} /\ HasMet(family))
          => /\ Between(px, MET_MIN, MET_MAX) /\ px >= 0
             /\ Between(py, MET_MIN, MET_MAX) /\ py >= 0

\* Every bookkeeping value collected or written lies within the given bounds.
ColumnsWithin(jlo, jhi, mlo, mhi) ==
    /\ \A f \in FamilyNames : \A k \in 1..Len(tables[f]) :
          \A x \in 1..Len(tables[f][k]) :
              LET row == tables[f][k][x]
              IN  /\ Between(row.syst_jes, jlo, jhi)
                  /\ Between(row.syst_met_px, mlo, mhi)
                  /\ Between(row.syst_met_py, mlo, mhi)
    /\ \A n \in DOMAIN files : \A x \in 1..Len(files[n]) :
          /\ Between(files[n][x].syst_jes, jlo, jhi)
          /\ Between(files[n][x].syst_met_px, mlo, mhi)
          /\ Between(files[n][x].syst_met_py, mlo, mhi)

\* C7 as stated: the columns lie within [JES_MIN, JES_MAX], [MET_MIN, MET_MAX].
ColumnsWithinBounds ==
    SamplersWithinBounds /\ ColumnsWithin(JES_MIN, JES_MAX, MET_MIN, MET_MAX)

\* C7 as the code has it: the samplers' results lie within the bounds; the
\* syst_jes column lies within the bounds as rounded to float32, which are
\* wider than [JES_MIN, JES_MAX]; the MET columns lie in [MET_MIN, MET_MAX].
ColumnsWithinRoundedBounds ==
    /\ SamplersWithinBounds
    /\ ColumnsWithin(F32(JES_MIN), F32(JES_MAX), MET_MIN, MET_MAX)
    /\ F32(MET_MIN) = MET_MIN /\ F32(MET_MAX) = MET_MAX

\* A JES draw below JES_MIN was clipped to it and recorded, and a MET draw
\* above MET_MAX was clipped and recorded.
ColumnsWitness ==
    /\ \E k \in 1..Len(draws) : Normal(JES_SIGMA, draws[k]) < JES_MIN
    /\ \E x \in 1..Len(tables["JES_only"]) :
          \E y \in 1..Len(tables["JES_only"][x]) :
              tables["JES_only"][x][y].syst_jes = F32(JES_MIN)
    /\ \E x \in 1..Len(tables["MET_only"]) :
          \E y \in 1..Len(tables["MET_only"][x]) :
              tables["MET_only"][x][y].syst_met_px = MET_MAX

(***************************************************************************)
(* C4.  When syst.apply raises in a cycle, the run aborts: the family's    *)
(* output is not written and no later family's is; every table handed to   *)
(* the writer holds all N blocks of its family; nothing runs after the     *)
(* abort; and a file, once written, stays as written.                      *)
(***************************************************************************)
AbortedState ==
    pc = "aborted" =>
        /\ \A k \in FamilyIndex(family)..3 :
              ~Written(Families[k]) /\ Families[k] \notin DOMAIN out
        /\ \A k \in 1..(FamilyIndex(family) - 1) : Written(Families[k])

WholeFamiliesOnly ==
    \A f \in DOMAIN out :
        /\ Len(tables[f]) = N
        /\ \E n \in 1..Len(applyLog) :
              applyLog[n].family = f /\ applyLog[n].cycle = N - 1
        /\ out[f] = concat_tables(tables[f])

AbortIsFinal ==
    [][pc = "aborted" => UNCHANGED <<pc, files, out, draws, applyLog, tables>>]_vars

FilesKept ==
    [][\A n \in DOMAIN files : n \in DOMAIN files' /\ files'[n] = files[n]]_vars

\* C4: an abort leaves the running family and the later ones unwritten, only
\* whole families reach the writer, nothing runs after the abort, and written
\* files stay as they are.
AbortSafety ==
    /\ [](AbortedState /\ WholeFamiliesOnly)
    /\ AbortIsFinal
    /\ FilesKept

\* The applier raised in the second cycle of the MET-only family, after the
\* JES-only file was written.
AbortWitness ==
    /\ pc = "aborted"
    /\ family = "MET_only"
    /\ i = 1
    /\ Written("JES_only")
    /\ Len(base) >= 1

(***************************************************************************)
(* C5.  The families run in the order JES-only, MET-only, JES+MET without  *)
(* interleaving: the calls of syst.apply are the cycles 0..N-1 of each     *)
(* family in turn; a family is written after all its cycles and before the *)
(* first cycle of the next; and a family's file holds the tables of its    *)
(* own cycles only.                                                        *)
(***************************************************************************)
\* The annotated table of the n-th call of syst.apply.
CycleTable(n) ==
    LET c == applyLog[n]
    IN  add_syst_columns(SystApply(base, c.object_shifts, c.met_shift),
                         PassedJes(c), PassedPx(c), PassedPy(c), c.cycle)

\* C5: the calls of syst.apply follow the order JES-only, MET-only, JES+MET,
\* cycles 0..N-1 each; each file is written between its family's last cycle
\* and the next family's first, from its own cycles' tables.
FamilyOrder ==
    /\ \A n \in 1..Len(applyLog) :
          /\ n <= 3 * N
          /\ applyLog[n].family = Families[((n - 1) \div N) + 1]
          /\ applyLog[n].cycle = (n - 1) % N
    /\ \A k \in 1..3 :
          /\ Written(Families[k]) =>
                /\ Len(applyLog) >= k * N
                /\ \A j \in 1..(k - 1) : Written(Families[j])
                /\ FileOf(Families[k]) =
                      concat_tables([m \in 1..N |-> CycleTable((k - 1) * N + m)])
          /\ Len(applyLog) > k * N => Written(Families[k])
          /\ (pc = "write" /\ family = Families[k]) => Len(applyLog) = k * N

\* A run of several cycles per family has written its three files.
FamilyOrderWitness ==
    /\ pc = "done"
    /\ N >= 2
    /\ Len(base) >= 1
    /\ Len(applyLog) = 3 * N

JesSlot(f, c) == IF f = "JES_only" THEN c + 1 ELSE 3 * N + 3 * c + 1
PxSlot(f, c) == IF f = "MET_only" THEN N + 2 * c + 1 ELSE 3 * N + 3 * c + 2
PySlot(f, c) == PxSlot(f, c) + 1

\* The draws consumed when k families are complete.
DrawsAfter(k) == CASE k = 0 -> 0 [] k = 1 -> N [] k = 2 -> 3 * N [] k = 3 -> 6 * N

\* The parameter a draw z becomes: the distribution's value for z, clipped.
JesOfDraw(z) == Clip(Normal(config.JES_SIGMA, z), config.JES_MIN, config.JES_MAX)
MetOfDraw(z) ==
    Clip(LogNormal(config.MET_LOGNORM_MEAN, config.MET_LOGNORM_SIGMA, z),
         config.MET_MIN, config.MET_MAX)

\* The table of cycle c of family f, from the base table and the draws.
ExpectedCycle(f, c) ==
    LET j == JesOfDraw(draws[JesSlot(f, c)])
        m == <<MetOfDraw(draws[PxSlot(f, c)]), MetOfDraw(draws[PySlot(f, c)])>>
    IN  add_syst_columns(
            SystApply(base,
                      IF HasJes(f) THEN Some(make_jes_object_shift(j)) ELSE None,
                      IF HasMet(f) THEN Some([px |-> m[1], py |-> m[2]]) ELSE None),
            IF HasJes(f) THEN j ELSE 0,
            IF HasMet(f) THEN m[1] ELSE 0,
            IF HasMet(f) THEN m[2] ELSE 0,
            c)

\* C8: every written file equals the table computed from the base table and
\* the draws at the fixed positions of its family's cycles.
DrawOrderFixed ==
    \A k \in 1..3 :
        Written(Families[k]) =>
            /\ Len(draws) >= DrawsAfter(k)
            /\ FileOf(Families[k]) =
                  concat_tables([m \in 1..N |-> ExpectedCycle(Families[k], m - 1)])

\* A run of several cycles per family over a table with rows has written
\* its three files from 6 N draws.
DrawOrderWitness ==
    /\ pc = "done"
    /\ N >= 2
    /\ Len(base) >= 1
    /\ Len(draws) = 6 * N
    /\ \A f \in FamilyNames : Written(f)

(***************************************************************************)
(* C9.  A run whose sampling constants are invalid (sigma <= 0, or         *)
(* min >= max) is rejected before any cycle: no value is drawn, syst.apply *)
(* is not called and no file is written.                                   *)
(***************************************************************************)
InvalidConfigRejected ==
    ~ValidConfig(config) =>
        /\ draws = <<>>
        /\ applyLog = <<>>
        /\ DOMAIN files = {}

(***************************************************************************)
(* C10.  At most N annotated per-cycle tables are held at any time: once a *)
(* family has been concatenated, none of its per-cycle tables is held      *)
(* while a later family's cycles run.                                      *)
(***************************************************************************)
\* The annotated tables referenced by main: those in the three lists, and
\* the one in shifted that is not yet appended.
HeldTables ==
    Len(tables["JES_only"]) + Len(tables["MET_only"]) + Len(tables["JES_MET"])
        + (IF pc = "append" THEN 1 ELSE 0)

\* C10: at most N annotated tables are held, and none of a concatenated
\* family while another family runs.
HeldTablesAtMostN ==
    /\ HeldTables <= N
    /\ \A f \in DOMAIN out : f # family => tables[f] = <<>>

=============================================================================
